---- MODULE Spec2Model ----
(***************************************************************************)
(* Model of src/app.py: a Streamlit page with three tabs (video, image,    *)
(* text).  Every user interaction re-executes the whole script top to      *)
(* bottom (one "script run"); the only state that survives a run is the    *)
(* session's widget values and the files in the system temp directory.     *)
(*                                                                         *)
(* Text is a sequence of Unicode code points, a file's content a sequence  *)
(* of bytes.  The staging service (upload_file / get_file) and the model   *)
(* agent (run) are external: each call nondeterministically returns or     *)
(* raises.                                                                 *)
(***************************************************************************)
EXTENDS Integers, Sequences, FiniteSets, TLC

VARIABLES
    file,                  \* video_file / image_file: is a file uploaded in the tab
    query,                 \* user_query text area of the video / image tab
    text_input,            \* text area of the text tab
    text_file,             \* uploader of the text tab
    summary_prompt_input,  \* "custom prompt" field of the text tab
    disk,                  \* scratch files in the temp directory
    service,               \* behaviour of the remote staging service
    pc,                    \* position of the script run
    tab,                   \* tab whose block the script run is executing
    button,                \* the button whose press triggered this run
    path,                  \* video_path / image_path of this run
    processed,             \* processed_video / processed_image: handle state
    shown,                 \* st.warning / result / st.error shown in this run
    calls,                 \* external calls made in this run, in order
    observed,              \* handle states the poll loop's test has read
    written,               \* scratch files created in this run
    uncaught,              \* exception that escaped the script run
    disk0                  \* the temp directory as it was when the run began

vars == << file, query, text_input, text_file, summary_prompt_input, disk,
           service, pc, tab, button, path, processed, shown, calls, observed,
           written, uncaught, disk0 >>

-----------------------------------------------------------------------------
(* Bounds *)

MaxFiles == 7          \* scratch files the temp directory can hold
MaxProcessing == 2     \* "PROCESSING" answers a responsive service gives a request

MaxLog == MaxProcessing + 2   \* calls of one request against a responsive service

MediaTabs == {"video", "image"}

\* code points: 32 space, 97 a, 98 b
QueryValues == { <<>>, <<32>>, <<97>> }
TextValues == { <<>>, <<32>>, <<97>> }
PromptValues == { <<32>>, <<98>> }
\* bytes: empty, " ", "b", U+00A0 (no-break space), U+00E9, an invalid byte
FileValues == { <<>>, <<32>>, <<98>>, <<194, 160>>, <<195, 169>>, <<255>> }

-----------------------------------------------------------------------------
(* Library functions the script calls *)

RECURSIVE Utf8Ok(_)
\* bytes.decode("utf-8") succeeds (sequences of up to two bytes per code point)
Utf8Ok(b) ==
    IF b = <<>> THEN TRUE
    ELSE IF Head(b) < 128 THEN Utf8Ok(Tail(b))
    ELSE IF Head(b) >= 194 /\ Head(b) <= 223
        THEN /\ Len(b) >= 2
             /\ b[2] >= 128 /\ b[2] <= 191
             /\ Utf8Ok(Tail(Tail(b)))
    ELSE FALSE

RECURSIVE Utf8Decode(_)
\* bytes.decode("utf-8") of a sequence for which Utf8Ok holds
Utf8Decode(b) ==
    IF b = <<>> THEN <<>>
    ELSE IF Head(b) < 128 THEN <<Head(b)>> \o Utf8Decode(Tail(b))
    ELSE <<(Head(b) - 192) * 64 + (b[2] - 128)>> \o Utf8Decode(Tail(Tail(b)))

\* the code points below U+0800 that str.strip() removes
Whitespace == (9..13) \cup (28..32) \cup {133, 160}

RECURSIVE LStrip(_)
LStrip(s) == IF s # <<>> /\ Head(s) \in Whitespace THEN LStrip(Tail(s)) ELSE s

RECURSIVE RStrip(_)
RStrip(s) ==
    IF s # <<>> /\ s[Len(s)] \in Whitespace
        THEN RStrip(SubSeq(s, 1, Len(s) - 1))
        ELSE s

\* str.strip()
Strip(s) == RStrip(LStrip(s))

-----------------------------------------------------------------------------
(* Values *)

NoPath == [stem |-> 0, suffix |-> ""]
NoTextFile == [uploaded |-> FALSE, content |-> <<>>]
NoPrompt == [template |-> "", instructions |-> <<>>, text |-> <<>>]

Suffix(k) == IF k = "video" THEN ".mp4" ELSE ".png"

\* tempfile.NamedTemporaryFile picks a name that does not exist yet; names
\* with the same suffix are interchangeable, the least free stem stands for it
FreeStems(k) == { n \in 1..(MaxFiles + 1) : [stem |-> n, suffix |-> Suffix(k)] \notin disk }
FreshName(k) ==
    [stem |-> CHOOSE n \in FreeStems(k) : \A m \in FreeStems(k) : n <= m,
     suffix |-> Suffix(k)]

Key(k) == IF k = "video" THEN "analyze_video_button"
          ELSE IF k = "image" THEN "analyze_image_button"
          ELSE "summarize_text_button"

\* the log of one run, kept up to MaxLog entries
Log(s, e) == IF Len(s) < MaxLog THEN Append(s, e) ELSE s

Call(op, prompt, media, result) ==
    [op |-> op, prompt |-> prompt, media |-> media, result |-> result]

\* the "PROCESSING" answers the staging service has given this run
ProcessingAnswers == { i \in 1..Len(calls) : calls[i].result = "PROCESSING" }

-----------------------------------------------------------------------------
(* The script's own decisions *)

\* mutant: the validation of the query is missing
QueryMissing_Never(q) == FALSE

\* "if not user_query": only the empty string fails the validation
QueryMissing(q) == q = <<>>

\* mutant: the text is validated without trimming
TextMissing_Untrimmed(t) == t = <<>>

\* "if not text_content.strip()"
TextMissing(t) == Strip(t) = <<>>

\* mutant: the loop waits for "ACTIVE" instead of leaving "PROCESSING"
StillProcessing_UntilActive(state) == state # "ACTIVE"

\* mutant: the loop gives up after MaxProcessing reads
StillProcessing_GivesUp(state) == state = "PROCESSING" /\ Len(observed) < MaxProcessing

\* "while processed.state.name == 'PROCESSING'"
StillProcessing(state) == state = "PROCESSING"

\* mutant: typed text, when present, wins over the file
TextContent_TypedFirst(f, typed) ==
    IF typed # <<>> \/ ~f.uploaded THEN typed ELSE Utf8Decode(f.content)

\* "if text_file: ... else: text_content = text_input"; an UploadedFile is
\* truthy whatever its content
TextContent(f, typed) == IF f.uploaded THEN Utf8Decode(f.content) ELSE typed

\* text_file.read().decode("utf-8") raises UnicodeDecodeError
DecodeRaises(f) == f.uploaded /\ ~Utf8Ok(f.content)

\* the f-string of the video / image tab: a fixed template and the literal query
AnalysisPrompt(k, q) == [template |-> k, instructions |-> <<>>, text |-> q]

\* the f-string of the text tab
SummaryPrompt(custom, t) ==
    [template |-> "summary",
     instructions |-> IF Strip(custom) # <<>> THEN custom ELSE <<>>,
     text |-> t]

\* mutant: the handler shows a result whether or not the call raised
Outcome_AlwaysResult(k, result) == [tab |-> k, kind |-> "result"]

\* "except Exception as error": what the handler shows for a call that
\* returned (the result) or raised (st.error)
Outcome(k, result) ==
    [tab |-> k, kind |-> IF result = "raise" THEN "error" ELSE "result"]

Warning(k) == [tab |-> k, kind |-> "warning"]

\* mutant: the cleanup is missing
Unlink_Keeps(d, p) == d

\* "finally: Path(path).unlink(missing_ok=True)"
Unlink(d, p) == d \ {p}

\* the block the script executes after tab k's
NextTab(k) == IF k = "video" THEN "image" ELSE "text"

-----------------------------------------------------------------------------
(* Initial state: a fresh session, nothing uploaded, the page idle *)

InitSession ==
    /\ file = [k \in MediaTabs |-> FALSE]
    /\ query = [k \in MediaTabs |-> <<>>]
    /\ text_input = <<>>
    /\ text_file = NoTextFile
    /\ summary_prompt_input = <<>>
    /\ disk = {}
    /\ pc = "idle"
    /\ tab = "video"
    /\ button = ""
    /\ path = [k \in MediaTabs |-> NoPath]
    /\ processed = ""
    /\ shown = <<>>
    /\ calls = <<>>
    /\ observed = <<>>
    /\ written = {}
    /\ uncaught = ""
    /\ disk0 = {}

Init == InitSession /\ service = "responsive"

InitAnyService == InitSession /\ service \in {"responsive", "stuck"}

-----------------------------------------------------------------------------
(* User interactions: each changes one widget (or presses one button) and  *)
(* makes the framework re-execute the script from the top.  The script     *)
(* blocks the session while it runs (time.sleep and the remote calls are   *)
(* synchronous), so an interaction is taken up when the page is idle.      *)

\* the script run starts: lines 1-47
Rerun(pressed) ==
    /\ pc = "idle"
    /\ pc' = "tab"
    /\ tab' = "video"
    /\ button' = pressed
    /\ disk0' = disk
    /\ UNCHANGED << disk, service, path, processed, shown, calls, observed,
                    written, uncaught >>

\* the run that starts will write one scratch file per uploaded medium
Room(f) == Cardinality(disk) + Cardinality({ k \in MediaTabs : f[k] }) <= MaxFiles

\* the widgets below line 181 are on the page only if the last run got there
TextTabComplete == ~DecodeRaises(text_file)

UploadMedia(k) ==
    /\ ~file[k]
    /\ file' = [file EXCEPT ![k] = TRUE]
    /\ Room(file')
    /\ Rerun("")
    /\ UNCHANGED << query, text_input, text_file, summary_prompt_input >>

\* removing the file removes the tab's text area, whose value is dropped
RemoveMedia(k) ==
    /\ file[k]
    /\ file' = [file EXCEPT ![k] = FALSE]
    /\ query' = [query EXCEPT ![k] = <<>>]
    /\ Room(file')
    /\ Rerun("")
    /\ UNCHANGED << text_input, text_file, summary_prompt_input >>

EditQuery(k) ==
    /\ file[k]
    /\ Room(file)
    /\ \E q \in QueryValues \ {query[k]} : query' = [query EXCEPT ![k] = q]
    /\ Rerun("")
    /\ UNCHANGED << file, text_input, text_file, summary_prompt_input >>

EditText ==
    /\ Room(file)
    /\ \E t \in TextValues \ {text_input} : text_input' = t
    /\ Rerun("")
    /\ UNCHANGED << file, query, text_file, summary_prompt_input >>

UploadText ==
    /\ Room(file)
    /\ \E b \in FileValues :
          /\ text_file # [uploaded |-> TRUE, content |-> b]
          /\ text_file' = [uploaded |-> TRUE, content |-> b]
    /\ Rerun("")
    /\ UNCHANGED << file, query, text_input, summary_prompt_input >>

RemoveText ==
    /\ text_file.uploaded
    /\ Room(file)
    /\ text_file' = NoTextFile
    /\ Rerun("")
    /\ UNCHANGED << file, query, text_input, summary_prompt_input >>

EditPrompt ==
    /\ TextTabComplete
    /\ Room(file)
    /\ \E p \in (PromptValues \cup {<<>>}) \ {summary_prompt_input} :
          summary_prompt_input' = p
    /\ Rerun("")
    /\ UNCHANGED << file, query, text_input, text_file >>

\* st.button returns True in the run its press triggers, and only there
Press(k) ==
    /\ IF k \in MediaTabs THEN file[k] ELSE TextTabComplete
    /\ Room(file)
    /\ Rerun(Key(k))
    /\ UNCHANGED << file, query, text_input, text_file, summary_prompt_input >>

-----------------------------------------------------------------------------
(* The script run *)

StagingStates == {"PROCESSING", "ACTIVE", "FAILED"}

\* what a call to the staging service can answer: a handle state, or it raises.
\* A responsive service leaves "PROCESSING" after at most MaxProcessing
\* answers; a stuck one answers every refresh with "PROCESSING".
UploadAnswers == StagingStates \cup {"raise"}
RefreshAnswers ==
    IF service = "stuck" THEN {"PROCESSING"}
    ELSE { r \in StagingStates \cup {"raise"} :
              r = "PROCESSING" => Cardinality(ProcessingAnswers) < MaxProcessing }
RunAnswers == {"content", "raise"}

\* the script moves on to the block after tab k's
Leave(k) ==
    /\ pc' = "tab"
    /\ tab' = NextTab(k)

\* except + finally of tab k's handler, or its normal end + finally
Conclude(k, result) ==
    /\ shown' = Append(shown, Outcome(k, result))
    /\ disk' = Unlink(disk, path[k])
    /\ Leave(k)

\* lines 49-70 and 102-103 (video), 106-127 and 160-161 (image): the tab's
\* block up to the try statement
MediaTab(k) ==
    /\ pc = "tab"
    /\ tab = k
    /\ IF file[k]
         THEN /\ path' = [path EXCEPT ![k] = FreshName(k)]
              /\ disk' = disk \cup {FreshName(k)}
              /\ written' = written \cup {FreshName(k)}
              /\ IF button = Key(k)
                   THEN IF QueryMissing(query[k])
                          THEN /\ shown' = Append(shown, Warning(k))
                               /\ Leave(k)
                          ELSE /\ pc' = "upload"
                               /\ UNCHANGED << shown, tab >>
                   ELSE /\ Leave(k)
                        /\ UNCHANGED shown
         ELSE /\ Leave(k)
              /\ UNCHANGED << path, disk, written, shown >>
    /\ UNCHANGED << file, query, text_input, text_file, summary_prompt_input,
                    service, button, processed, calls, observed, uncaught, disk0 >>

\* line 74 / 131: processed = upload_file(path)
Upload(k) ==
    /\ pc = "upload"
    /\ tab = k
    /\ \E r \in UploadAnswers :
          /\ calls' = Log(calls, Call("upload_file", NoPrompt, "", r))
          /\ IF r = "raise"
               THEN /\ Conclude(k, r)
                    /\ UNCHANGED processed
               ELSE /\ processed' = r
                    /\ pc' = "poll"
                    /\ UNCHANGED << shown, disk, tab >>
    /\ UNCHANGED << file, query, text_input, text_file, summary_prompt_input,
                    service, button, path, observed, written, uncaught, disk0 >>

\* lines 75-77 / 132-134: one iteration of the poll loop
Poll(k) ==
    /\ pc = "poll"
    /\ tab = k
    /\ StillProcessing(processed)
    /\ observed' = Log(observed, processed)
    /\ \E r \in RefreshAnswers :
          /\ calls' = Log(calls, Call("get_file", NoPrompt, "", r))
          /\ IF r = "raise"
               THEN /\ Conclude(k, r)
                    /\ UNCHANGED processed
               ELSE /\ processed' = r
                    /\ UNCHANGED << shown, disk, pc, tab >>
    /\ UNCHANGED << file, query, text_input, text_file, summary_prompt_input,
                    service, button, path, written, uncaught, disk0 >>

\* lines 75, 79-101 / 132, 136-159: the loop ends, the prompt is built, the
\* agent runs, and the handler shows the result or the error and cleans up
AgentRun(k) ==
    /\ pc = "poll"
    /\ tab = k
    /\ ~StillProcessing(processed)
    /\ observed' = Log(observed, processed)
    /\ \E r \in RunAnswers :
          /\ calls' = Log(calls, Call("run", AnalysisPrompt(k, query[k]), processed, r))
          /\ Conclude(k, r)
    /\ UNCHANGED << file, query, text_input, text_file, summary_prompt_input,
                    service, button, path, processed, written, uncaught, disk0 >>

\* lines 164-231: the text tab, to the end of the script
TextTab ==
    /\ pc = "tab"
    /\ tab = "text"
    /\ pc' = "done"
    /\ IF DecodeRaises(text_file)
         THEN /\ uncaught' = "UnicodeDecodeError"
              /\ UNCHANGED << shown, calls >>
         ELSE /\ UNCHANGED uncaught
              /\ IF button = Key("text")
                   THEN IF TextMissing(TextContent(text_file, text_input))
                          THEN /\ shown' = Append(shown, Warning("text"))
                               /\ UNCHANGED calls
                          ELSE \E r \in RunAnswers :
                                  /\ calls' = Log(calls,
                                        Call("run",
                                             SummaryPrompt(summary_prompt_input,
                                                 TextContent(text_file, text_input)),
                                             "", r))
                                  /\ shown' = Append(shown, Outcome("text", r))
                   ELSE UNCHANGED << shown, calls >>
    /\ UNCHANGED << file, query, text_input, text_file, summary_prompt_input,
                    disk, service, tab, button, path, processed, observed,
                    written, disk0 >>

\* the script run is over: control is back with the UI loop, and the run's
\* variables are gone
Return ==
    /\ pc = "done"
    /\ pc' = "idle"
    /\ tab' = "video"
    /\ button' = ""
    /\ path' = [k \in MediaTabs |-> NoPath]
    /\ processed' = ""
    /\ shown' = <<>>
    /\ calls' = <<>>
    /\ observed' = <<>>
    /\ written' = {}
    /\ uncaught' = ""
    /\ disk0' = disk
    /\ UNCHANGED << file, query, text_input, text_file, summary_prompt_input,
                    disk, service >>

-----------------------------------------------------------------------------

Interaction ==
    \/ \E k \in MediaTabs : UploadMedia(k)
    \/ \E k \in MediaTabs : RemoveMedia(k)
    \/ \E k \in MediaTabs : EditQuery(k)
    \/ EditText
    \/ UploadText
    \/ RemoveText
    \/ EditPrompt
    \/ \E k \in MediaTabs \cup {"text"} : Press(k)

Script ==
    \/ \E k \in MediaTabs : MediaTab(k)
    \/ \E k \in MediaTabs : Upload(k)
    \/ \E k \in MediaTabs : Poll(k)
    \/ \E k \in MediaTabs : AgentRun(k)
    \/ TextTab
    \/ Return

Next == Interaction \/ Script

Spec == Init /\ [][Next]_vars

\* a started script run keeps executing; the user is under no obligation
SpecLive == InitAnyService /\ [][Next]_vars /\ WF_vars(Script)

-----------------------------------------------------------------------------
(* Vocabulary of the properties *)

CallsOf(op) == { i \in 1..Len(calls) : calls[i].op = op }
Raised == \E i \in 1..Len(calls) : calls[i].result = "raise"
PressedIn(k) == pc # "idle" /\ button = Key(k)
RunOver == pc = "done"
Shows(k, kind) == shown = << [tab |-> k, kind |-> kind] >>

-----------------------------------------------------------------------------
(* C1.  Claim: the scratch file of a video/image request is deleted on     *)
(* every exit path of the handler (success, model error, empty-query       *)
(* warning) before control returns to the UI loop: when a script run that  *)
(* a press of the tab's button started is over, the scratch file written   *)
(* for that tab no longer exists.                                          *)
C1_ScratchDeletedOnEveryExit ==
    \A k \in MediaTabs :
        (RunOver /\ button = Key(k)) => path[k] \notin disk

(* C2.  An "Analyze Video" / "Analyze Image" press with an empty query     *)
(* makes no call to upload_file, get_file or run at any point of the       *)
(* script run, and the run ends having shown the warning of that tab.      *)
C2_EmptyQueryNoCalls ==
    \A k \in MediaTabs :
        (PressedIn(k) /\ query[k] = <<>>) =>
            /\ calls = <<>>
            /\ RunOver => Shows(k, "warning")

C2_Witness ==
    /\ RunOver
    /\ button = Key("video")
    /\ query["video"] = <<>>
    /\ Shows("video", "warning")
    /\ file["image"]
    /\ uncaught # ""

C4_FailedHandleIsAnError ==
    /\ \A i \in CallsOf("run") : calls[i].media # "FAILED"
    /\ \A k \in MediaTabs :
          (RunOver /\ button = Key(k) /\ \E j \in 1..Len(observed) : observed[j] = "FAILED")
              => Shows(k, "error")

(* C5.  The agent is run only after the loop test has read a handle state  *)
(* other than "PROCESSING", and with that handle; the states the test      *)
(* reads are the staging answers in order (upload_file's, then each        *)
(* get_file's), all but the last of them "PROCESSING"; the number of       *)
(* get_file calls is the number of "PROCESSING" states read.  Answers      *)
(* "PROCESSING", "PROCESSING", "ACTIVE" therefore give exactly two polls.  *)
C5_PollsWhileProcessing ==
    /\ \A i \in CallsOf("run") :
          calls[i].prompt.template \in MediaTabs =>
              /\ observed # <<>>
              /\ observed[Len(observed)] # "PROCESSING"
              /\ calls[i].media = observed[Len(observed)]
    /\ \A j \in 1..Len(observed) :
          /\ observed[j] = calls[j].result
          /\ j < Len(observed) => observed[j] = "PROCESSING"
    /\ Cardinality(CallsOf("get_file"))
          = Cardinality({ j \in 1..Len(observed) : observed[j] = "PROCESSING" })
    /\ ( /\ Len(calls) >= 4
         /\ calls[1].result = "PROCESSING"
         /\ calls[2].result = "PROCESSING"
         /\ calls[3].result = "ACTIVE" )
          => (CallsOf("get_file") = {2, 3} /\ calls[4].op = "run")

C5_Witness ==
    /\ RunOver
    /\ button = Key("video")
    /\ Len(calls) = 4
    /\ calls[1] = Call("upload_file", NoPrompt, "", "PROCESSING")
    /\ calls[2] = Call("get_file", NoPrompt, "", "PROCESSING")
    /\ calls[3] = Call("get_file", NoPrompt, "", "ACTIVE")
    /\ calls[4] = Call("run", AnalysisPrompt("video", <<97>>), "ACTIVE", "content")
    /\ observed = <<"PROCESSING", "PROCESSING", "ACTIVE">>

(* C6.  In a "Summarize Text" run with a text file uploaded and typed text *)
(* present, the text that is validated and placed in the prompt is the     *)
(* decoded content of the file; with no file uploaded it is the typed      *)
(* text.                                                                   *)
C6_FileTakesPrecedence ==
    (RunOver /\ button = Key("text")) =>
        /\ (text_file.uploaded /\ text_input # <<>>) =>
              /\ Shows("text", "warning") <=> Strip(Utf8Decode(text_file.content)) = <<>>
              /\ \A i \in CallsOf("run") : calls[i].prompt.text = Utf8Decode(text_file.content)
        /\ ~text_file.uploaded =>
              /\ Shows("text", "warning") <=> Strip(text_input) = <<>>
              /\ \A i \in CallsOf("run") : calls[i].prompt.text = text_input

C6_Witness ==
    /\ RunOver
    /\ button = Key("text")
    /\ text_file = [uploaded |-> TRUE, content |-> <<195, 169>>]
    /\ text_input = <<97>>
    /\ Len(calls) = 1
    /\ calls[1].op = "run"
    /\ calls[1].prompt.text = <<233>>

(* C7.  In a "Summarize Text" run, if the resolved text (the file's        *)
(* content when a file is uploaded, else the typed text) is blank after    *)
(* trimming, the warning is shown and the agent is not called; the agent   *)
(* is called only with a resolved text that is non-blank after trimming.   *)
C7_BlankTextNoCall ==
    LET resolved == IF text_file.uploaded
                      THEN Utf8Decode(text_file.content)
                      ELSE text_input
        blank == \A i \in 1..Len(resolved) : resolved[i] \in Whitespace
    IN  (RunOver /\ button = Key("text")) =>
            /\ blank => (Shows("text", "warning") /\ calls = <<>>)
            /\ ~blank => (Len(calls) = 1 /\ calls[1].op = "run")

C7_Witness ==
    /\ RunOver
    /\ button = Key("text")
    /\ text_file = [uploaded |-> TRUE, content |-> <<194, 160>>]
    /\ text_input = <<97>>
    /\ Shows("text", "warning")
    /\ calls = <<>>

(* C8.  Claim: a script run started by "Summarize Text" creates no scratch *)
(* file and leaves the set of scratch files on disk as it was, whatever is *)
(* uploaded in the video and image tabs.                                   *)
C8_TextRunLeavesDiskAlone ==
    PressedIn("text") => (written = {} /\ disk = disk0)

\* a request that passed validation, against a service that answers
Validated(k) == service = "responsive" /\ pc = "upload" /\ tab = k
\* its handler has shown a result or an error and deleted its scratch file
Completed(k) ==
    /\ Shows(k, "result") \/ Shows(k, "error")
    /\ path[k] # NoPath
    /\ path[k] \notin disk
\* the poll loop, against a service that stays in "PROCESSING"
StuckInPoll == service = "stuck" /\ pc = "poll" /\ processed = "PROCESSING"
\* in the loop: no agent call, nothing shown, the scratch file on disk
StillPolling ==
    /\ pc = "poll"
    /\ shown = <<>>
    /\ CallsOf("run") = {}
    /\ path[tab] \in disk

(* C9.  A validated video/image request against a staging service that     *)
(* leaves "PROCESSING" eventually completes: its handler shows a result or *)
(* an error and its scratch file is deleted.  Against a service that stays *)
(* in "PROCESSING", a request that has entered the poll loop stays in it   *)
(* for ever: no agent call, nothing shown, its scratch file still on disk. *)
C9_NoTimeout ==
    /\ \A k \in MediaTabs : Validated(k) ~> Completed(k)
    /\ [](StuckInPoll => []StillPolling)

C9_Witness ==
    /\ StuckInPoll
    /\ StillPolling
    /\ Len(calls) = MaxLog
    /\ Cardinality(CallsOf("get_file")) = MaxProcessing + 1

(* C10.  A run started by a button press ends having shown exactly one     *)
(* outcome, in the pressed tab: a warning, a result or an error.  It is a  *)
(* result only if validation passed and every external call of the run     *)
(* returned, the agent's among them.  Within a run upload_file and run are *)
(* each called at most once, and in the video and image tabs run is called *)
(* only after upload_file.                                                 *)
C10_OneOutcomePerPress ==
    /\ \A k \in MediaTabs \cup {"text"} :
          (RunOver /\ button = Key(k)) =>
              /\ \E kind \in {"warning", "result", "error"} : Shows(k, kind)
              /\ Shows(k, "result") =>
                    /\ ~Raised
                    /\ CallsOf("run") # {}
                    /\ k \in MediaTabs =>
                          (query[k] # <<>> /\ CallsOf("upload_file") # {})
                    /\ k = "text" =>
                          \E i \in 1..Len(calls[1].prompt.text) :
                              calls[1].prompt.text[i] \notin Whitespace
    /\ Cardinality(CallsOf("upload_file")) <= 1
    /\ Cardinality(CallsOf("run")) <= 1
    /\ \A i \in CallsOf("run") :
          calls[i].prompt.template \in MediaTabs =>
              \E j \in CallsOf("upload_file") : j < i

C10_Witness ==
    /\ RunOver
    /\ button = Key("image")
    /\ Shows("image", "result")
    /\ Len(calls) = 3
    /\ file["video"]

====
